---- MODULE Spec2Model ----
(***************************************************************************)
(* Model of src/analytics.js: the FunnelAnalytics event ledger.  Every     *)
(* page load constructs one FunnelAnalytics instance, which reads the      *)
(* ledger document from the localStorage slot, mutates its own in-memory   *)
(* copy on every trackEvent and writes the whole copy back.                *)
(***************************************************************************)
EXTENDS Integers, Sequences, FiniteSets, TLC

(***************************************************************************)
(* Number.prototype.toFixed(2) applied to (n / d) * 100, computed as the   *)
(* engine computes it: IEEE-754 binary64 division, binary64 multiplication *)
(* by 100 (both round-to-nearest, ties-to-even), then the decimal          *)
(* rendering of the exact value of the resulting double, ties upward.      *)
(* A positive double is [e, m]: m = <<m1, m2, m3>> is its 53-bit           *)
(* significand m1 * 2^36 + m2 * 2^18 + m3 (m1 has 17 bits, the leading one *)
(* set; m2 and m3 have 18) and its value is significand * 2^(e - 52).      *)
(* The operators are exact for 1 <= n, d < 8192.                           *)
(***************************************************************************)
Pow2(k) == <<1, 2, 4, 8, 16, 32, 64, 128, 256, 512, 1024, 2048, 4096, 8192,
             16384, 32768, 65536, 131072, 262144, 524288, 1048576, 2097152,
             4194304, 8388608, 16777216, 33554432, 67108864, 134217728,
             268435456, 536870912, 1073741824>>[k + 1]

Limb == Pow2(18)

\* the largest e with d * 2^e <= n (n >= d >= 1)
RECURSIVE FloorLog2(_, _)
FloorLog2(n, d) == IF 2 * d <= n THEN 1 + FloorLog2(n, 2 * d) ELSE 0

\* the smallest k with n * 2^k >= d (n >= 1)
RECURSIVE CeilShift(_, _)
CeilShift(n, d) == IF n >= d THEN 0 ELSE 1 + CeilShift(2 * n, d)

\* round-to-nearest, ties-to-even, of a significand with its guard bit and
\* sticky flag
RoundNearestEven(e, m, guard, sticky) ==
    IF guard = 1 /\ (sticky \/ (m[3] % 2) = 1)
    THEN LET c3 == IF m[3] + 1 = Limb THEN 1 ELSE 0
             c2 == IF m[2] + c3 = Limb THEN 1 ELSE 0
         IN  IF m[1] + c2 = Pow2(17)
             THEN [e |-> e + 1, m |-> <<Pow2(16), 0, 0>>]
             ELSE [e |-> e, m |-> <<m[1] + c2, (m[2] + c3) % Limb, (m[3] + 1) % Limb>>]
    ELSE [e |-> e, m |-> m]

\* the double nearest to n / d: long division of a / b in [1, 2), 16 + 18 + 18
\* quotient bits after the leading one, then the guard bit
FloatDiv(n, d) ==
    LET up == IF n >= d THEN FloorLog2(n, d) ELSE 0
        dn == IF n >= d THEN 0 ELSE CeilShift(n, d)
        a  == n * Pow2(dn)
        b  == d * Pow2(up)
        x1 == (a - b) * Pow2(16)
        x2 == (x1 % b) * Limb
        x3 == (x2 % b) * Limb
        x4 == (x3 % b) * 2
    IN  RoundNearestEven(up - dn, <<Pow2(16) + (x1 \div b), x2 \div b, x3 \div b>>,
                         x4 \div b, (x4 % b) # 0)

\* significand * 100, as <<p1, p2, p3>> with p1 of 23 or 24 bits
MulHundred(m) ==
    LET p3 == m[3] * 100
        p2 == (m[2] * 100) + (p3 \div Limb)
        p1 == (m[1] * 100) + (p2 \div Limb)
    IN  <<p1, p2 % Limb, p3 % Limb>>

\* the double nearest to x * 100: the product's top 53 bits, rounded
FloatMulHundred(x) ==
    LET p == MulHundred(x.m)
        s == IF p[1] >= Pow2(23) THEN 7 ELSE 6
        w == Pow2(s)
        u == Pow2(18 - s)
    IN  RoundNearestEven(x.e + s,
                         <<p[1] \div w, (p[2] \div w) + ((p[1] % w) * u), (p[3] \div w) + ((p[2] % w) * u)>>,
                         (p[3] \div Pow2(s - 1)) % 2, (p[3] % Pow2(s - 1)) # 0)

\* toFixed(2), first half: the integer h with h / 100 closest to the exact value
\* of the double x, the larger one on a tie: floor(x * 100 + 1/2), where
\* x * 100 = q * 2^(-f)
Hundredths(x) ==
    LET q == MulHundred(x.m)
        f == 52 - x.e
    IN  IF f > 60 THEN 0
        ELSE IF f > 36 THEN (q[1] \div Pow2(f - 36)) + ((q[1] \div Pow2(f - 37)) % 2)
        ELSE IF f = 36 THEN q[1] + (q[2] \div Pow2(17))
        ELSE (q[1] * Pow2(36 - f)) + (q[2] \div Pow2(f - 18)) + ((q[2] \div Pow2(f - 19)) % 2)

DigitChar(k) == <<"0", "1", "2", "3", "4", "5", "6", "7", "8", "9">>[k + 1]

RECURSIVE Digits(_)
Digits(k) == IF k < 10 THEN <<DigitChar(k)>> ELSE Append(Digits(k \div 10), DigitChar(k % 10))

\* toFixed(2), second half: h hundredths as text, a tuple of characters
FixedText(h) == Digits(h \div 100) \o <<".", DigitChar((h % 100) \div 10), DigitChar(h % 10)>>

NaNText == <<"N", "a", "N">>
InfinityText == <<"I", "n", "f", "i", "n", "i", "t", "y">>

\* ((n / d) * 100).toFixed(2)
toFixed2(n, d) ==
    IF d = 0 THEN (IF n = 0 THEN NaNText ELSE InfinityText)
    ELSE IF n = 0 THEN FixedText(0)
    ELSE FixedText(Hundredths(FloatMulHundred(FloatDiv(n, d))))


(***************************************************************************)
(* Configuration and vocabulary.                                           *)
(***************************************************************************)
\* the browsing contexts (tabs): each has its own sessionStorage and holds at
\* most one page instance; all share the localStorage slot
Tabs == {"tabA", "tabB"}

\* FUNNEL_STAGES
CanonicalStages == {"quiz_loaded", "quiz_started", "quiz_completed",
                    "sales_page_loaded", "sales_page_scrolled", "checkout_clicked"}

\* the names trackEvent is called with after the page load: two canonical
\* stages and a free-form name
TrackedNames == {"quiz_started", "checkout_clicked", "page_exit"}

\* a name that every object inherits from Object.prototype: trackEvent takes
\* any string, and a lookup on a plain object finds such a name without the
\* object having it
InheritedNames == {"toString"}

\* detectCurrentPage's results that construct differently
Pages == {"quiz", "sales", "dashboard"}

\* the longest event log a ledger grows to
MaxEvents == 2
\* calendar days are 1..MaxDay
MaxDay == 2
\* storage writes that fail plus sink calls that throw, over a run
MaxFaults == 1
\* the session identifiers generateSessionId hands out are 1..MaxSessions
MaxSessions == 2

Days == 1..MaxDay
SessionIds == 1..MaxSessions
NoSession == 0

EmptyMap == [k \in {} |-> 0]

\* a counter that holds NaN, and the null JSON.stringify writes for it
NaNCount == -1
NullCount == -2

VARIABLES
    storage,       \* localStorage[ANALYTICS_KEY]
    sessionStore,  \* per tab: sessionStorage[SESSION_KEY]
    nextId,        \* the next identifier generateSessionId returns
    inst,          \* per tab: the FunnelAnalytics instance of the loaded page
    now,           \* the calendar day of the wall clock
    faults,        \* environment faults so far
    ret,           \* the last call: what it was and how it ended
    recorded       \* per session id: the trackEvent calls that ran their
                   \* statements up to the recompute, since the last reset

vars == <<storage, sessionStore, nextId, inst, now, faults, ret, recorded>>

(***************************************************************************)
(* Values.  A parsed JSON value is null, a primitive, or an object; an     *)
(* object lacks the ledger fields in `missing`.                            *)
(***************************************************************************)
\* getDefaultData
getDefaultData ==
    [kind |-> "object", missing |-> {},
     totalSessions |-> 0,
     events |-> <<>>,
     funnelMetrics |-> [s \in CanonicalStages |-> 0],
     dailyStats |-> EmptyMap,
     conversionRates |-> EmptyMap,
     sessions |-> <<>>]

LedgerFields == {"totalSessions", "events", "funnelMetrics", "dailyStats",
                 "conversionRates", "sessions"}

JsonNull == [getDefaultData EXCEPT !.kind = "null", !.missing = LedgerFields]
JsonNumber == [getDefaultData EXCEPT !.kind = "number", !.missing = LedgerFields]
ObjectMissing(fields) == [getDefaultData EXCEPT !.missing = fields]

\* parseable texts that are not ledger documents
MalformedValues ==
    {JsonNull, JsonNumber, ObjectMissing(LedgerFields)}
    \cup {ObjectMissing({f}) : f \in {"events", "funnelMetrics", "dailyStats",
                                      "sessions", "conversionRates"}}

Has(d, f) == d.kind = "object" /\ f \notin d.missing
WellFormed(d) == d.kind = "object" /\ d.missing = {}

\* the slot: no item, the empty string, text JSON.parse rejects, or JSON text
SlotAbsent == [kind |-> "absent", value |-> JsonNull]
SlotEmpty == [kind |-> "empty", value |-> JsonNull]
SlotGarbage == [kind |-> "garbage", value |-> JsonNull]

\* JSON.stringify: the ledger holds numbers, strings, booleans, arrays and
\* plain objects, which JSON.parse gives back unchanged, but for NaN, which
\* is written as null
stringifyCount(c) == IF c = NaNCount THEN NullCount ELSE c

stringifyBucket(b) ==
    [b EXCEPT !.events = [n \in DOMAIN b.events |-> stringifyCount(b.events[n])]]

JSONstringify(v) ==
    [kind |-> "json",
     value |-> [v EXCEPT !.dailyStats =
                   [k \in DOMAIN v.dailyStats |-> stringifyBucket(v.dailyStats[k])]]]

\* JSON.parse
JSONparse(text) ==
    IF text.kind = "json" THEN [threw |-> FALSE, value |-> text.value]
    ELSE [threw |-> TRUE, value |-> JsonNull]

\* loadData whose catch block returns nothing
loadDataUncaught(stored) ==
    IF stored.kind \in {"absent", "empty"} THEN getDefaultData
    ELSE JSONparse(stored).value

\* loadData: a missing item and the empty string are falsy
loadData(stored) ==
    IF stored.kind \in {"absent", "empty"} THEN getDefaultData
    ELSE IF JSONparse(stored).threw THEN getDefaultData
    ELSE JSONparse(stored).value

\* saveData without its try/catch
saveDataUncaught(d, stored, writeOk) ==
    [storage |-> IF writeOk THEN JSONstringify(d) ELSE stored, raised |-> ~writeOk]

\* saveData: setItem's exception is caught; the slot keeps its content
saveData(d, stored, writeOk) ==
    [storage |-> IF writeOk THEN JSONstringify(d) ELSE stored, raised |-> FALSE]

(***************************************************************************)
(* trackEvent, statement by statement.  Each statement gives the ledger it *)
(* leaves and whether it threw (a TypeError on a value that is not a       *)
(* ledger document); a statement that throws ends the call, and what the   *)
(* earlier statements did to the in-memory ledger stays done.              *)
(***************************************************************************)
Ok(d) == [data |-> d, raised |-> FALSE]
Throw(d) == [data |-> d, raised |-> TRUE]

\* F(v), with v evaluated once
Let1(v, F(_)) == CHOOSE y \in {F(x) : x \in {v}} : TRUE

\* the next statement F runs on the ledger c left, unless c threw
Then(c, F(_)) == Let1(c, LAMBDA x : IF x.raised THEN x ELSE F(x.data))

\* this.data.events.push(event)
pushEvent(d, event) ==
    IF ~Has(d, "events") THEN Throw(d)
    ELSE Ok([d EXCEPT !.events = Append(@, event)])

\* the update counting an event twice
updateFunnelMetricsTwice(d, eventName) ==
    IF ~Has(d, "funnelMetrics") THEN Throw(d)
    ELSE IF eventName \in DOMAIN d.funnelMetrics
         THEN Ok([d EXCEPT !.funnelMetrics[eventName] = @ + 2])
         ELSE Ok(d)

\* if (funnelMetrics.hasOwnProperty(eventName)) funnelMetrics[eventName]++
updateFunnelMetrics(d, eventName) ==
    IF ~Has(d, "funnelMetrics") THEN Throw(d)
    ELSE IF eventName \in DOMAIN d.funnelMetrics
         THEN Ok([d EXCEPT !.funnelMetrics[eventName] = @ + 1])
         ELSE Ok(d)

NewDayBucket == [sessions |-> 0, events |-> EmptyMap, conversions |-> EmptyMap]

\* if (!events[eventName]) events[eventName] = 0; events[eventName]++
\* The counter starts at 0 when what the lookup finds is falsy: nothing, 0,
\* NaN or null.  An inherited name the object does not have itself is found
\* on the prototype, a function: it is not set to 0, and ++ makes it NaN.
countAfter(events, eventName) ==
    IF eventName \in DOMAIN events
    THEN (IF events[eventName] > 0 THEN events[eventName] + 1 ELSE 1)
    ELSE IF eventName \in InheritedNames THEN NaNCount
    ELSE 1

\* the day bucket is created when absent, and the counter of the name counted
updateDailyStats(d, today, eventName) ==
    IF ~Has(d, "dailyStats") THEN Throw(d)
    ELSE LET bucket == IF today \in DOMAIN d.dailyStats THEN d.dailyStats[today]
                       ELSE NewDayBucket
             count  == countAfter(bucket.events, eventName)
             after  == [bucket EXCEPT !.events = (eventName :> count) @@ @]
         IN  Ok([d EXCEPT !.dailyStats = (today :> after) @@ @])

\* a flag list that takes the name on every event
setFunnelFlagAppends(funnel, name) == Append(funnel, name)

\* session.funnel[name] = true: the keys of the flag object, in insertion order
setFunnelFlag(funnel, name) ==
    IF \E i \in 1..Len(funnel) : funnel[i] = name THEN funnel
    ELSE Append(funnel, name)

\* this.data.sessions.find(s => s.id === this.sessionId): the first match, 0 if none
findSession(sessions, sessionId) ==
    IF \E i \in 1..Len(sessions) : sessions[i].id = sessionId
    THEN CHOOSE i \in 1..Len(sessions) :
            /\ sessions[i].id = sessionId
            /\ \A j \in 1..(i - 1) : sessions[j].id # sessionId
    ELSE 0

\* updateSessionData putting the name at the front of the session's events
updateSessionDataUnshift(d, sessionId, eventName, t) ==
    IF ~Has(d, "sessions") THEN Throw(d)
    ELSE LET found   == findSession(d.sessions, sessionId)
             created == found = 0
             fresh   == [id |-> sessionId, startTime |-> t, events |-> <<>>,
                         lastActivity |-> t, funnel |-> <<>>]
             list    == IF created THEN Append(d.sessions, fresh) ELSE d.sessions
             i       == IF created THEN Len(list) ELSE found
             session == [list[i] EXCEPT !.events = <<eventName>> \o @,
                                        !.lastActivity = t,
                                        !.funnel = setFunnelFlag(@, eventName)]
         IN  Ok([d EXCEPT !.sessions = [list EXCEPT ![i] = session],
                          !.totalSessions = IF created THEN @ + 1 ELSE @])

\* updateSessionData; startTime and lastActivity are read from the clock at t
updateSessionData(d, sessionId, eventName, t) ==
    IF ~Has(d, "sessions") THEN Throw(d)
    ELSE LET found   == findSession(d.sessions, sessionId)
             created == found = 0
             fresh   == [id |-> sessionId, startTime |-> t, events |-> <<>>,
                         lastActivity |-> t, funnel |-> <<>>]
             list    == IF created THEN Append(d.sessions, fresh) ELSE d.sessions
             i       == IF created THEN Len(list) ELSE found
             session == [list[i] EXCEPT !.events = Append(@, eventName),
                                        !.lastActivity = t,
                                        !.funnel = setFunnelFlag(@, eventName)]
         IN  Ok([d EXCEPT !.sessions = [list EXCEPT ![i] = session],
                          !.totalSessions = IF created THEN @ + 1 ELSE @])

\* the six rates in the order calculateConversionRates assigns them
RateRules ==
    << [rate |-> "quizStartRate",         num |-> "quiz_started",        den |-> "quiz_loaded"],
       [rate |-> "quizCompletionRate",    num |-> "quiz_completed",      den |-> "quiz_started"],
       [rate |-> "salesPageViewRate",     num |-> "sales_page_loaded",   den |-> "quiz_completed"],
       [rate |-> "scrollRate",            num |-> "sales_page_scrolled", den |-> "sales_page_loaded"],
       [rate |-> "checkoutClickRate",     num |-> "checkout_clicked",    den |-> "sales_page_scrolled"],
       [rate |-> "overallConversionRate", num |-> "checkout_clicked",    den |-> "quiz_loaded"] >>

RateNames == {RateRules[i].rate : i \in 1..Len(RateRules)}

\* the statement without its guard
setRateUnguarded(rates, rule, metrics) ==
    (rule.rate :> toFixed2(metrics[rule.num], metrics[rule.den])) @@ rates

\* the statement assigning a rate only the first time
setRateOnce(rates, rule, metrics) ==
    IF metrics[rule.den] > 0 /\ rule.rate \notin DOMAIN rates
    THEN (rule.rate :> toFixed2(metrics[rule.num], metrics[rule.den])) @@ rates
    ELSE rates

\* one of the six statements: if (metrics.den > 0) conversionRates.rate = ...
setRate(rates, rule, metrics) ==
    IF metrics[rule.den] > 0
    THEN (rule.rate :> toFixed2(metrics[rule.num], metrics[rule.den])) @@ rates
    ELSE rates

\* the first k statements applied to rates
RECURSIVE applyRates(_, _, _)
applyRates(rates, metrics, k) ==
    IF k = 0 THEN rates
    ELSE setRate(applyRates(rates, metrics, k - 1), RateRules[k], metrics)

\* calculateConversionRates: the entries already in conversionRates stay unless
\* a statement assigns them
calculateConversionRates(d) ==
    IF ~Has(d, "funnelMetrics") THEN Throw(d)
    ELSE IF ~Has(d, "conversionRates")
         THEN (IF \E i \in 1..Len(RateRules) : d.funnelMetrics[RateRules[i].den] > 0
               THEN Throw(d) ELSE Ok(d))
         ELSE Ok([d EXCEPT !.conversionRates =
                     applyRates(@, d.funnelMetrics, Len(RateRules))])

\* what the third-party sink does in a call: neither gtag nor fbq is defined,
\* those defined return, or one of them throws
SinkOutcomes == {"absent", "returns", "throws"}

\* sendToExternalAnalytics: gtag / fbq are called when defined, unguarded.
\* outcome: the sink threw, or it was quiet (absent, or it returned)
sendToExternalAnalytics(sink) ==
    [raised |-> sink = "throws", outcome |-> IF sink = "throws" THEN "throws" ELSE "quiet"]

\* trackEvent(eventName) of the instance self with the slot holding stored.
\* Of the event's fields the name, the session and the timestamp are kept; the
\* rest (page, url, referrer, device, payload) is stored and never read.
\* clock = <<t1, t2, t3>>: the days read for the event's timestamp, for the
\* day key and for the session's times.  applied: the statements up to the
\* recompute ran; write: what saveData's setItem did; sink: what the sink
\* did, when the call got that far.
trackEvent(self, stored, eventName, clock, writeOk, sink) ==
    Let1(Then(Then(Then(Then(
            pushEvent(self.data, [event |-> eventName, sessionId |-> self.sessionId,
                                  timestamp |-> clock[1]]),
            LAMBDA d : updateFunnelMetrics(d, eventName)),
            LAMBDA d : updateDailyStats(d, clock[2], eventName)),
            LAMBDA d : updateSessionData(d, self.sessionId, eventName, clock[3])),
            LAMBDA d : calculateConversionRates(d)),
         LAMBDA s :
            IF s.raised
            THEN [data |-> s.data, storage |-> stored, raised |-> TRUE,
                  applied |-> FALSE, write |-> "none", sink |-> "none"]
            ELSE Let1(saveData(s.data, stored, writeOk),
                      LAMBDA saved :
                         IF saved.raised
                         THEN [data |-> s.data, storage |-> saved.storage, raised |-> TRUE,
                               applied |-> TRUE, write |-> "failed", sink |-> "none"]
                         ELSE [data |-> s.data, storage |-> saved.storage,
                               raised |-> sendToExternalAnalytics(sink).raised,
                               applied |-> TRUE,
                               write |-> IF writeOk THEN "ok" ELSE "failed",
                               sink |-> sendToExternalAnalytics(sink).outcome]))

(***************************************************************************)
(* The operations.                                                         *)
(***************************************************************************)
\* getOrCreateSession without the cache
getOrCreateSessionNoCache(cached, fresh) == fresh

\* getOrCreateSession: the cached identifier, or a freshly generated one
getOrCreateSession(cached, fresh) == IF cached = NoSession THEN fresh ELSE cached

NoInstance ==
    [sessionId |-> NoSession, data |-> getDefaultData, page |-> "none",
     listening |-> FALSE, exposed |-> FALSE]

Call(op, tab, arg) ==
    [op |-> op, tab |-> tab, arg |-> arg, raised |-> FALSE, applied |-> 0,
     write |-> "none", sink |-> "none", value |-> "none", slot |-> "none"]

\* the days the clock shows when a call reads it for the event's timestamp,
\* for the day key and for the session's times; midnight passes between the
\* first two reads (cross) or not during the call
ClockReads(cross) == <<now, IF cross THEN now + 1 ELSE now, IF cross THEN now + 1 ELSE now>>

FaultCount(write, sink) ==
    (IF write = "failed" THEN 1 ELSE 0) + (IF sink = "throws" THEN 1 ELSE 0)

Count(r) == IF r.applied THEN 1 ELSE 0

\* resetAnalytics without its removeItem
resetAnalyticsNoRemove(self, stored, confirmed, writeOk) ==
    IF confirmed
    THEN [data |-> getDefaultData,
          storage |-> saveData(getDefaultData, stored, writeOk).storage,
          value |-> "true"]
    ELSE [data |-> self.data, storage |-> stored, value |-> "false"]

\* resetAnalytics, with confirm()'s answer
resetAnalytics(self, stored, confirmed, writeOk) ==
    IF confirmed
    THEN [data |-> getDefaultData,
          storage |-> saveData(getDefaultData, SlotAbsent, writeOk).storage,
          value |-> "true"]
    ELSE [data |-> self.data, storage |-> stored, value |-> "false"]

Init ==
    /\ storage \in {SlotAbsent, SlotEmpty, SlotGarbage}
                   \cup {JSONstringify(v) : v \in MalformedValues}
    /\ sessionStore = [t \in Tabs |-> NoSession]
    /\ nextId = 1
    /\ inst = [t \in Tabs |-> NoInstance]
    /\ now = 1
    /\ faults = 0
    /\ ret = Call("none", "none", "none")
    /\ recorded = [i \in SessionIds |-> 0]

\* A listener or a caller of window.FunnelAnalytics invokes trackEvent(name)
\* on the page instance of tab t.
TrackEvent(t, name, cross, writeOk, sink) ==
    /\ inst[t].listening \/ inst[t].exposed
    /\ Has(inst[t].data, "events") => Len(inst[t].data.events) < MaxEvents
    /\ cross => now < MaxDay
    /\ ~writeOk \/ sink = "throws" => faults < MaxFaults
    /\ \E r \in {trackEvent(inst[t], storage, name, ClockReads(cross), writeOk, sink)} :
           /\ faults + FaultCount(r.write, r.sink) <= MaxFaults
           /\ (r.write = "none" => writeOk) /\ (r.sink = "none" => sink = "absent")
           /\ inst' = [inst EXCEPT ![t].data = r.data]
           /\ storage' = r.storage
           /\ faults' = faults + FaultCount(r.write, r.sink)
           /\ ret' = [Call("trackEvent", t, name) EXCEPT
                         !.raised = r.raised, !.applied = Count(r),
                         !.write = r.write, !.sink = r.sink]
           /\ recorded' = [recorded EXCEPT ![inst[t].sessionId] = @ + Count(r)]
    /\ now' = ClockReads(cross)[3]
    /\ UNCHANGED <<sessionStore, nextId>>

\* trackPageLoad: quiz and sales pages track their load
PageLoadEvent(page) ==
    IF page = "quiz" THEN "quiz_loaded"
    ELSE IF page = "sales" THEN "sales_page_loaded" ELSE "none"

NoCall(self, stored) ==
    [data |-> self.data, storage |-> stored, raised |-> FALSE,
     applied |-> FALSE, write |-> "none", sink |-> "none"]

\* A page of kind `page` loads in tab t, its URL without UTM parameters: the
\* constructor runs getOrCreateSession, loadData and init.  init tracks the
\* page load (quiz and sales pages) and then registers the page's listeners;
\* trackUTMParams finds nothing to track.  A trackEvent that throws ends the
\* constructor there: the listeners are never registered and
\* window.FunnelAnalytics stays unassigned.
Construct(t, page, cross, writeOk, sink) ==
    /\ cross => now < MaxDay
    /\ page = "dashboard" => ~cross /\ writeOk /\ sink = "absent"
    /\ ~writeOk \/ sink = "throws" => faults < MaxFaults
    /\ sessionStore[t] = NoSession => nextId \in SessionIds
    /\ Has(loadData(storage), "events") /\ page # "dashboard" =>
          Len(loadData(storage).events) < MaxEvents
    /\ \E self \in {[sessionId |-> getOrCreateSession(sessionStore[t], nextId),
                     data |-> loadData(storage), page |-> page,
                     listening |-> FALSE, exposed |-> FALSE]} :
       \E r \in {IF page = "dashboard" THEN NoCall(self, storage)
                 ELSE trackEvent(self, storage, PageLoadEvent(page),
                                 ClockReads(cross), writeOk, sink)} :
           /\ faults + FaultCount(r.write, r.sink) <= MaxFaults
           /\ (r.write = "none" => writeOk) /\ (r.sink = "none" => sink = "absent")
           /\ sessionStore' = [sessionStore EXCEPT ![t] = self.sessionId]
           /\ nextId' = IF sessionStore[t] = NoSession THEN nextId + 1 ELSE nextId
           /\ inst' = [inst EXCEPT ![t] = [self EXCEPT !.data = r.data,
                                                       !.listening = ~r.raised,
                                                       !.exposed = ~r.raised]]
           /\ storage' = r.storage
           /\ faults' = faults + FaultCount(r.write, r.sink)
           /\ ret' = [Call("construct", t, page) EXCEPT
                         !.raised = r.raised, !.applied = Count(r),
                         !.write = r.write, !.sink = r.sink, !.slot = storage.kind]
           /\ recorded' = [recorded EXCEPT ![self.sessionId] = @ + Count(r)]
    /\ now' = ClockReads(cross)[3]

\* window.FunnelAnalytics.resetAnalytics() on the page instance of tab t
ResetAnalytics(t, confirmed, writeOk) ==
    /\ inst[t].exposed
    /\ confirmed \/ writeOk
    /\ ~writeOk => faults < MaxFaults
    /\ \E r \in {resetAnalytics(inst[t], storage, confirmed, writeOk)} :
           /\ inst' = [inst EXCEPT ![t].data = r.data]
           /\ storage' = r.storage
           /\ ret' = [Call("reset", t, IF confirmed THEN "confirmed" ELSE "declined") EXCEPT
                         !.value = r.value,
                         !.write = IF ~confirmed THEN "none"
                                   ELSE IF writeOk THEN "ok" ELSE "failed"]
    /\ faults' = IF writeOk THEN faults ELSE faults + 1
    /\ recorded' = IF confirmed THEN [i \in SessionIds |-> 0] ELSE recorded
    /\ UNCHANGED <<sessionStore, nextId, now>>

\* The browsing context of tab t ends: its page instance and its
\* sessionStorage are gone, and the tab's next page load starts a new session.
CloseTab(t) ==
    /\ sessionStore[t] # NoSession
    /\ sessionStore' = [sessionStore EXCEPT ![t] = NoSession]
    /\ inst' = [inst EXCEPT ![t] = NoInstance]
    /\ ret' = Call("closeTab", t, "none")
    /\ UNCHANGED <<storage, nextId, now, faults, recorded>>

\* midnight passes between two calls
Tick ==
    /\ now < MaxDay
    /\ now' = now + 1
    /\ ret' = Call("tick", "none", "none")
    /\ UNCHANGED <<storage, sessionStore, nextId, inst, faults, recorded>>

\* calculateConversionRates called on the instance of tab t
CalculateRates(t) ==
    /\ inst[t].exposed
    /\ ret.op = "none"
    /\ inst' = [inst EXCEPT ![t].data = calculateConversionRates(@).data]
    /\ ret' = [Call("calculateConversionRates", t, "none") EXCEPT
                  !.raised = calculateConversionRates(inst[t].data).raised]
    /\ UNCHANGED <<storage, sessionStore, nextId, now, faults, recorded>>

\* getAnalytics: what the caller gets is this.data itself (own), not a copy
getAnalytics(self) == [value |-> self.data, own |-> TRUE]

\* what a caller does to a document it holds: it empties the session list, or
\* it zeroes a counter
CallerWrites == {"sessions.length = 0", "funnelMetrics.quiz_loaded = 0"}

callerWrite(d, w) ==
    IF w = "sessions.length = 0" THEN [d EXCEPT !.sessions = <<>>]
    ELSE [d EXCEPT !.funnelMetrics["quiz_loaded"] = 0]

\* A caller of window.FunnelAnalytics.getAnalytics() in tab t writes to the
\* value it got.  A write to the instance's own object is a write to the
\* ledger; a write to a copy is not.
MutateSnapshot(t, w) ==
    /\ inst[t].exposed
    /\ WellFormed(inst[t].data)
    /\ \E r \in {getAnalytics(inst[t])} :
          inst' = [inst EXCEPT ![t].data = IF r.own THEN callerWrite(r.value, w) ELSE @]
    /\ ret' = Call("getAnalytics", t, w)
    /\ UNCHANGED <<storage, sessionStore, nextId, now, faults, recorded>>

(***************************************************************************)
(* Spec: the pages of one tab, one after the other, with what the          *)
(* environment can do to them: a slot that holds anything at the start,    *)
(* writes that fail, a sink that throws, the browsing context ending and a *)
(* new session starting.  All within one calendar day.                     *)
(***************************************************************************)
Next ==
    \/ \E name \in TrackedNames, writeOk \in BOOLEAN, sink \in SinkOutcomes :
          TrackEvent("tabA", name, FALSE, writeOk, sink)
    \/ \E page \in Pages, writeOk \in BOOLEAN, sink \in SinkOutcomes :
          Construct("tabA", page, FALSE, writeOk, sink)
    \/ \E confirmed \in BOOLEAN, writeOk \in BOOLEAN :
          ResetAnalytics("tabA", confirmed, writeOk)
    \/ CloseTab("tabA")

Spec == Init /\ [][Next]_vars

(***************************************************************************)
(* SpecTabs: two tabs open at once on an empty slot, their calls           *)
(* interleaved; the environment is quiet (writes succeed, no sink throws,  *)
(* one day).                                                               *)
(***************************************************************************)
InitTabs == Init /\ storage = SlotAbsent

NextTabs ==
    \/ \E t \in Tabs, name \in TrackedNames : TrackEvent(t, name, FALSE, TRUE, "absent")
    \/ \E t \in Tabs, page \in Pages : Construct(t, page, FALSE, TRUE, "absent")

SpecTabs == InitTabs /\ [][NextTabs]_vars

(***************************************************************************)
(* SpecDays: the pages of one tab on an empty slot while the calendar day  *)
(* changes, between calls and during them, the names recorded being any    *)
(* string; the environment is otherwise quiet.                             *)
(***************************************************************************)
NextDays ==
    \/ \E name \in TrackedNames \cup InheritedNames, cross \in BOOLEAN :
          TrackEvent("tabA", name, cross, TRUE, "absent")
    \/ \E page \in Pages, cross \in BOOLEAN : Construct("tabA", page, cross, TRUE, "absent")
    \/ Tick

SpecDays == InitTabs /\ [][NextDays]_vars

(***************************************************************************)
(* SpecReader: the pages of one tab on an empty slot, with a caller of     *)
(* getAnalytics that writes to what it gets; the environment is quiet.     *)
(***************************************************************************)
NextReader ==
    \/ \E name \in TrackedNames : TrackEvent("tabA", name, FALSE, TRUE, "absent")
    \/ \E page \in Pages : Construct("tabA", page, FALSE, TRUE, "absent")
    \/ \E w \in CallerWrites : MutateSnapshot("tabA", w)
    \/ CloseTab("tabA")

SpecReader == InitTabs /\ [][NextReader]_vars

(***************************************************************************)
(* SpecSessions: two tabs on an empty slot, their pages loading one after  *)
(* the other and the tabs closing; the environment is quiet.               *)
(***************************************************************************)
NextSessions ==
    \/ \E t \in Tabs : TrackEvent(t, "page_exit", FALSE, TRUE, "absent")
    \/ \E t \in Tabs, page \in Pages : Construct(t, page, FALSE, TRUE, "absent")
    \/ \E t \in Tabs : CloseTab(t)

SpecSessions == InitTabs /\ [][NextSessions]_vars

(***************************************************************************)
(* SpecRates: calculateConversionRates as a function of the counters.  The *)
(* instance holds a ledger whose counters a long run has left; the run's   *)
(* log is not kept here.                                                   *)
(***************************************************************************)
RateInputs ==
    [quiz_loaded : {0, 100, 160}, quiz_started : {0, 23, 40},
     quiz_completed : {0, 10}, sales_page_loaded : {0, 8},
     sales_page_scrolled : {0, 4}, checkout_clicked : {0, 1}]

InitRates ==
    /\ storage = SlotAbsent
    /\ sessionStore = [t \in Tabs |-> IF t = "tabA" THEN 1 ELSE NoSession]
    /\ nextId = 2
    /\ \E m \in RateInputs :
          inst = [t \in Tabs |->
                    IF t = "tabA"
                    THEN [sessionId |-> 1,
                          data |-> [getDefaultData EXCEPT !.funnelMetrics = m],
                          page |-> "dashboard", listening |-> TRUE, exposed |-> TRUE]
                    ELSE NoInstance]
    /\ now = 1
    /\ faults = 0
    /\ ret = Call("none", "none", "none")
    /\ recorded = [i \in SessionIds |-> 0]

NextRates == CalculateRates("tabA")

SpecRates == InitRates /\ [][NextRates]_vars

(***************************************************************************)
(* Properties.  What they say of a ledger they say without the             *)
(* definitions above: the sessions, counters and rates are read off the    *)
(* documents themselves.                                                   *)
(***************************************************************************)
Occurrences(seq, x) == Cardinality({i \in 1..Len(seq) : seq[i] = x})

\* the positions in d.sessions of the entries with identifier sid
EntriesOf(d, sid) == {i \in 1..Len(d.sessions) : d.sessions[i].id = sid}

EventsOfSession(d, sid) ==
    IF EntriesOf(d, sid) = {} THEN <<>>
    ELSE d.sessions[CHOOSE i \in EntriesOf(d, sid) : TRUE].events

FunnelOfSession(d, sid) ==
    IF EntriesOf(d, sid) = {} THEN <<>>
    ELSE d.sessions[CHOOSE i \in EntriesOf(d, sid) : TRUE].funnel

DayCount(d, day, name) ==
    IF day \in DOMAIN d.dailyStats
    THEN (IF name \in DOMAIN d.dailyStats[day].events
          THEN d.dailyStats[day].events[name] ELSE 0)
    ELSE 0

\* the document in the slot, as a reader of the slot takes it
Persisted == IF storage.kind = "json" THEN storage.value ELSE getDefaultData

\* the ledgers there are: those of the page instances and the stored one
Ledgers ==
    {inst[t].data : t \in {u \in Tabs : inst[u].page # "none"}}
    \cup (IF storage.kind = "json" THEN {storage.value} ELSE {})

\* the table of the six rates
Numerator ==
    [quizStartRate |-> "quiz_started", quizCompletionRate |-> "quiz_completed",
     salesPageViewRate |-> "sales_page_loaded", scrollRate |-> "sales_page_scrolled",
     checkoutClickRate |-> "checkout_clicked", overallConversionRate |-> "checkout_clicked"]

Denominator ==
    [quizStartRate |-> "quiz_loaded", quizCompletionRate |-> "quiz_started",
     salesPageViewRate |-> "quiz_completed", scrollRate |-> "sales_page_loaded",
     checkoutClickRate |-> "sales_page_scrolled", overallConversionRate |-> "quiz_loaded"]

\* the rates the counters m give, computed with nothing carried over
RatesFromScratch(m) ==
    [k \in {r \in DOMAIN Denominator : m[Denominator[r]] > 0} |->
        toFixed2(m[Numerator[k]], m[Denominator[k]])]

\* 100 * n / d in hundredths, rounded to the nearest with ties as mode says
RoundingModes == {"half-up", "half-down", "half-even"}

Round2(mode, n, d) ==
    LET q == (10000 * n) \div d
        r == (10000 * n) % d
        up == \/ (2 * r) > d
              \/ (2 * r) = d /\ mode = "half-up"
              \/ (2 * r) = d /\ mode = "half-even" /\ (q % 2) = 1
    IN  IF up THEN q + 1 ELSE q

\* the sessions that recorded an event since the ledger was last empty
SessionsSeen == {i \in SessionIds : recorded[i] > 0}

(* C1: after any sequence of recordEvent calls by page instances with
   various session ids, starting from the default document and without
   reset, the ledger's totalSessions is the number of session ids that
   recorded an event, sessions holds exactly one entry for each of them, and
   the length of each session's event sequence is the number of events
   recorded under its id. *)
C1_SessionUpsert ==
    /\ Persisted.totalSessions = Cardinality(SessionsSeen)
    /\ Len(Persisted.sessions) = Cardinality(SessionsSeen)
    /\ \A i \in SessionsSeen :
          /\ Cardinality(EntriesOf(Persisted, i)) = 1
          /\ Len(EventsOfSession(Persisted, i)) = recorded[i]

(* C2: every completed recordEvent of a name lengthens the events log by
   one, adds one to funnelMetrics[name] when the name is canonical, appends
   the name to the session's event sequence, and leaves exactly one entry
   for the name in the session's funnel flags; so recording a name twice
   adds two to each of the first three and still leaves one flag. *)
C2_Step ==
    ret'.op = "trackEvent" /\ ret'.applied = 1 =>
        LET t    == ret'.tab
            name == ret'.arg
            sid  == inst[t].sessionId
            d    == inst[t].data
            e    == inst'[t].data
        IN  /\ Len(e.events) = Len(d.events) + 1
            /\ name \in CanonicalStages =>
                  e.funnelMetrics[name] = d.funnelMetrics[name] + 1
            /\ EventsOfSession(e, sid) = Append(EventsOfSession(d, sid), name)
            /\ Occurrences(FunnelOfSession(e, sid), name) = 1

C2_IdempotentFunnelMembership == [][C2_Step]_vars

\* a canonical name recorded twice by one session, flagged once
C2_Witness ==
    /\ ret.op = "trackEvent" /\ ret.applied = 1
    /\ ret.arg \in CanonicalStages
    /\ LET d == inst[ret.tab].data
           sid == inst[ret.tab].sessionId
       IN  /\ Occurrences(EventsOfSession(d, sid), ret.arg) = 2
           /\ Occurrences(FunnelOfSession(d, sid), ret.arg) = 1
           /\ d.funnelMetrics[ret.arg] = 2
           /\ Len(d.events) = 2

(* C3: in every ledger, in memory or stored, a key is present in
   conversionRates only if the funnelMetrics counter that is its denominator
   is greater than zero; with all counters zero conversionRates is empty. *)
C3_ZeroDenominatorOmission ==
    \A d \in Ledgers :
        Has(d, "funnelMetrics") /\ Has(d, "conversionRates") =>
            \A k \in DOMAIN d.conversionRates :
                /\ k \in DOMAIN Denominator
                /\ d.funnelMetrics[Denominator[k]] > 0

\* quiz_started counted with quiz_loaded still zero: one rate present, and
\* no quizStartRate
C3_Witness ==
    \E d \in Ledgers :
        /\ WellFormed(d)
        /\ d.funnelMetrics["quiz_started"] > 0
        /\ d.funnelMetrics["quiz_loaded"] = 0
        /\ DOMAIN d.conversionRates = {"quizCompletionRate"}

(* C4: after every completed recordEvent, conversionRates is what computing
   the six rates from the current funnelMetrics alone gives: no key and no
   value is left from an earlier state. *)
C4_RatesRecomputed ==
    ret.op \in {"trackEvent", "construct"} /\ ret.applied = 1
    /\ Has(inst[ret.tab].data, "conversionRates") =>
        inst[ret.tab].data.conversionRates =
            RatesFromScratch(inst[ret.tab].data.funnelMetrics)

\* quizStartRate, 0.00 after the page load, replaced by 100.00
C4_Witness ==
    /\ ret.op = "trackEvent" /\ ret.applied = 1 /\ ret.arg = "quiz_started"
    /\ WellFormed(inst[ret.tab].data)
    /\ "quizStartRate" \in DOMAIN inst[ret.tab].data.conversionRates
    /\ inst[ret.tab].data.conversionRates["quizStartRate"] = FixedText(10000)

(* C5: for every funnelMetrics, each rate whose denominator is not zero is
   100 * numerator / denominator rounded to two decimals and written with
   two decimal digits, for the six pairs of the table: there is a rounding
   to the nearest hundredth that gives all the rates of a document. *)
C5_RateCorrectness ==
    ret.op = "calculateConversionRates" =>
        LET m == inst[ret.tab].data.funnelMetrics
            rates == inst[ret.tab].data.conversionRates
        IN  \E mode \in RoundingModes :
                \A k \in DOMAIN Denominator :
                    m[Denominator[k]] > 0 =>
                        /\ k \in DOMAIN rates
                        /\ rates[k] = FixedText(Round2(mode, m[Numerator[k]],
                                                       m[Denominator[k]]))

(* C6 as claimed: reset without confirmation leaves the in-memory ledger
   and the slot unchanged and returns false; reset with confirmation makes
   the in-memory ledger the default document, leaves the default document
   in the slot, and returns true. *)
C6_ClaimedStep ==
    ret'.op = "reset" =>
        IF ret'.arg = "confirmed"
        THEN /\ inst'[ret'.tab].data = getDefaultData
             /\ storage' = JSONstringify(getDefaultData)
             /\ ret'.value = "true"
        ELSE /\ inst' = inst
             /\ storage' = storage
             /\ ret'.value = "false"

C6_ResetPersistsDefault == [][C6_ClaimedStep]_vars

(* C6: reset without confirmation leaves the in-memory ledger and the slot
   unchanged and returns false; reset with confirmation makes the in-memory
   ledger the default document and returns true, and it leaves the default
   document in the slot when its write succeeds and the slot empty when its
   write fails. *)
C6_Step ==
    ret'.op = "reset" =>
        IF ret'.arg = "confirmed"
        THEN /\ inst'[ret'.tab].data = getDefaultData
             /\ storage' = IF ret'.write = "ok" THEN JSONstringify(getDefaultData)
                           ELSE SlotAbsent
             /\ loadData(storage') = getDefaultData
             /\ ret'.value = "true"
        ELSE /\ inst' = inst
             /\ storage' = storage
             /\ ret'.value = "false"

C6_ResetSemantics == [][C6_Step]_vars

\* a confirmed reset on a quiz page, whose ledger held the page load, with
\* the write failing
C6_Witness ==
    /\ ret.op = "reset" /\ ret.arg = "confirmed" /\ ret.value = "true"
    /\ ret.write = "failed"
    /\ inst[ret.tab].page = "quiz"
    /\ inst[ret.tab].data = getDefaultData
    /\ storage = SlotAbsent

(* C7: loading from a slot that is empty or holds text that does not parse
   gives the default document without raising, and the ledger is then
   usable: the page load recorded by the constructor, and every later
   recordEvent, is applied to it, and nothing is raised by the ledger. *)
C7_Step ==
    /\ ret'.op = "construct" /\ ret'.slot \in {"absent", "empty", "garbage"} =>
          LET e == inst'[ret'.tab].data
              name == PageLoadEvent(ret'.arg)
          IN  /\ WellFormed(e)
              /\ ret'.raised => ret'.sink = "throws"
              /\ IF ret'.arg = "dashboard" THEN e = getDefaultData
                 ELSE /\ ret'.applied = 1
                      /\ e.totalSessions = 1
                      /\ Len(e.events) = 1 /\ e.events[1].event = name
                      /\ \A s \in CanonicalStages :
                            e.funnelMetrics[s] = IF s = name THEN 1 ELSE 0
    /\ ret'.op = "trackEvent" /\ WellFormed(inst[ret'.tab].data) =>
          /\ ret'.applied = 1
          /\ ret'.raised => ret'.sink = "throws"
          /\ Len(inst'[ret'.tab].data.events) = Len(inst[ret'.tab].data.events) + 1

C7_CorruptStoreRecovery == [][C7_Step]_vars

\* a quiz page loaded over text that does not parse: the page load is
\* recorded on the default document and saved
C7_Witness ==
    /\ ret.op = "construct" /\ ret.slot = "garbage" /\ ret.arg = "quiz"
    /\ ~ret.raised
    /\ Len(inst[ret.tab].data.events) = 1
    /\ inst[ret.tab].data.totalSessions = 1
    /\ storage = JSONstringify(inst[ret.tab].data)

(* C8: when the slot holds text that parses but is not a ledger document,
   loading falls back to the default document, so every page instance holds
   a ledger document, and the first recordEvent after the load does not
   raise (a sink that throws aside). *)
C8_MalformedTreatedAsAbsent ==
    /\ \A t \in Tabs : inst[t].page # "none" => WellFormed(inst[t].data)
    /\ ret.op \in {"construct", "trackEvent"} /\ ret.raised => ret.sink = "throws"

(* C9: when the write of a recordEvent fails, recordEvent does not raise,
   the slot is as it was, and the in-memory ledger has the new event and its
   counter, day-bucket, session and rate updates; every later recordEvent
   builds on the in-memory ledger, and a write that succeeds stores it. *)
C9_Step ==
    ret'.op = "trackEvent" =>
        LET t    == ret'.tab
            name == ret'.arg
            sid  == inst[t].sessionId
            d    == inst[t].data
            e    == inst'[t].data
        IN  /\ ret'.write = "failed" =>
                  /\ ret'.raised => ret'.sink = "throws"
                  /\ storage' = storage
                  /\ e.events = Append(d.events, [event |-> name, sessionId |-> sid,
                                                  timestamp |-> now'])
                  /\ \A s \in CanonicalStages :
                        e.funnelMetrics[s] =
                            d.funnelMetrics[s] + (IF s = name THEN 1 ELSE 0)
                  /\ DayCount(e, now', name) = DayCount(d, now', name) + 1
                  /\ EventsOfSession(e, sid) = Append(EventsOfSession(d, sid), name)
                  /\ Has(e, "conversionRates") =>
                        e.conversionRates = RatesFromScratch(e.funnelMetrics)
            /\ ret'.applied = 1 =>
                  /\ Len(e.events) = Len(d.events) + 1
                  /\ \A i \in 1..Len(d.events) : e.events[i] = d.events[i]
                  /\ ret'.write = "ok" => storage' = JSONstringify(e)

C9_WriteFailureNonFatal == [][C9_Step]_vars

\* a recordEvent whose write failed: nothing raised, two events in memory,
\* the stored document still at one
C9_Witness ==
    /\ ret.op = "trackEvent" /\ ret.write = "failed" /\ ~ret.raised
    /\ Len(inst[ret.tab].data.events) = 2
    /\ storage.kind = "json" /\ Len(storage.value.events) = 1

(* C10: when the third-party sink is absent or throws while it is told of
   an event, recordEvent does not raise, the event stays applied and what
   was written stays written, and the initialization that follows the
   page-load event goes on: the page's listeners are registered and the
   instance is exposed. *)
C10_SinkFailureIsolated ==
    ret.op \in {"construct", "trackEvent"} /\ ret.sink \in {"quiet", "throws"} =>
        /\ ~ret.raised
        /\ ret.applied = 1
        /\ ret.write = "ok" => storage = JSONstringify(inst[ret.tab].data)
        /\ ret.op = "construct" =>
              inst[ret.tab].listening /\ inst[ret.tab].exposed

\* the events named name in the log of d
Logged(d, name) == {i \in 1..Len(d.events) : d.events[i].event = name}

(* C11: what getAnalytics returns is a copy or an immutable view: a write a
   caller makes to it changes neither the ledger of the instance nor the
   slot, and what a later recordEvent persists counts every logged event of
   a canonical stage. *)
C11_Step ==
    /\ ret'.op = "getAnalytics" => inst' = inst /\ storage' = storage
    /\ ret'.op = "trackEvent" /\ ret'.write = "ok" =>
          \A s \in CanonicalStages :
              storage'.value.funnelMetrics[s] = Cardinality(Logged(storage'.value, s))

C11_SnapshotReadOnly == [][C11_Step]_vars

\* the names an event can have
AllNames == CanonicalStages \cup TrackedNames \cup InheritedNames

\* the count of name over the day buckets 1..k of d
RECURSIVE SumDays(_, _, _)
SumDays(d, name, k) ==
    IF k = 0 THEN 0 ELSE DayCount(d, k, name) + SumDays(d, name, k - 1)

\* every event in the log of d is in its counter, in a day bucket and in its
\* session's entry, and the rates are those of the counters
FullyUpdated(d) ==
    /\ \A s \in CanonicalStages : d.funnelMetrics[s] = Cardinality(Logged(d, s))
    /\ \A n \in AllNames : SumDays(d, n, MaxDay) = Cardinality(Logged(d, n))
    /\ \A sid \in SessionIds :
          Len(EventsOfSession(d, sid)) =
              Cardinality({i \in 1..Len(d.events) : d.events[i].sessionId = sid})
    /\ d.conversionRates = RatesFromScratch(d.funnelMetrics)

\* the documents a reader can get: the stored one, and through
\* window.FunnelAnalytics that of an exposed instance
Observable ==
    {inst[t].data : t \in {u \in Tabs : inst[u].exposed}}
    \cup (IF storage.kind = "json" THEN {storage.value} ELSE {})

(* C12: recordEvent is one transaction: every document in the slot and
   every document a reader can get is fully updated, each logged event
   being in its funnel counter, in a day bucket and in its session's entry,
   with the rates recomputed; no state between the append and the recompute
   is stored or observable. *)
C12_SingleTransaction ==
    \A d \in Observable : d.kind = "object" => FullyUpdated(d)

\* the same over ledger documents only
C12_LedgerDocuments ==
    \A d \in Observable : WellFormed(d) => FullyUpdated(d)

\* the members of a are in b, in the order they have in a
RECURSIVE IsSubsequence(_, _)
IsSubsequence(a, b) ==
    IF a = <<>> THEN TRUE
    ELSE IF b = <<>> THEN FALSE
    ELSE IF Head(a) = Head(b) THEN IsSubsequence(Tail(a), Tail(b))
    ELSE IsSubsequence(a, Tail(b))

(* C13: the event log is append-only: without a reset, under any
   interleaving of recordEvent calls by several page instances that loaded
   the ledger from the shared slot, every event once persisted stays in the
   persisted events sequence, unchanged and in its relative order. *)
C13_Step == IsSubsequence(Persisted.events, Persisted'.events)

C13_EventLogAppendOnly == [][C13_Step]_vars

(* C14: without a reset, under any interleaving of recordEvent calls by
   page instances with different session ids sharing the slot, the
   persisted totalSessions never decreases and every session id that
   recorded an event is in the persisted sessions list. *)
C14_Step ==
    /\ Persisted'.totalSessions >= Persisted.totalSessions
    /\ \A i \in SessionIds : recorded'[i] > 0 => EntriesOf(Persisted', i) # {}

C14_TotalSessionsMonotonic == [][C14_Step]_vars

SumMetrics(m) ==
    m["quiz_loaded"] + m["quiz_started"] + m["quiz_completed"]
    + m["sales_page_loaded"] + m["sales_page_scrolled"] + m["checkout_clicked"]

\* the ledger a call started from and the name it recorded: a trackEvent call
\* works on the instance's ledger, the constructor's page-load event on the
\* ledger just loaded
LedgerBefore == IF ret'.op = "trackEvent" THEN inst[ret'.tab].data ELSE loadData(storage)
NameRecorded == IF ret'.op = "trackEvent" THEN ret'.arg ELSE PageLoadEvent(ret'.arg)

(* C15: in every reachable state the events log is at least as long as the
   sum of the funnelMetrics counters; a recordEvent of a canonical stage
   name appends one event and adds one to exactly that counter, and a
   recordEvent of any other name appends one event and leaves every counter
   as it was. *)
C15_State ==
    \A d \in Ledgers :
        Has(d, "events") /\ Has(d, "funnelMetrics") =>
            Len(d.events) >= SumMetrics(d.funnelMetrics)

C15_Step ==
    ret'.op \in {"trackEvent", "construct"} /\ ret'.applied = 1 =>
        LET d == LedgerBefore
            e == inst'[ret'.tab].data
        IN  /\ e.events = Append(d.events, e.events[Len(e.events)])
            /\ e.events[Len(e.events)].event = NameRecorded
            /\ \A s \in CanonicalStages :
                  e.funnelMetrics[s] =
                      d.funnelMetrics[s] + (IF s = NameRecorded THEN 1 ELSE 0)

C15_LogCoversCounters == []C15_State /\ [][C15_Step]_vars

\* a canonical event and then a free-form one: two logged, one counted
C15_Witness ==
    /\ ret.op = "trackEvent" /\ ret.applied = 1 /\ ret.arg = "page_exit"
    /\ Len(inst[ret.tab].data.events) = 2
    /\ SumMetrics(inst[ret.tab].data.funnelMetrics) = 1
    /\ inst[ret.tab].data.events[1].event \in CanonicalStages

(* C16: events recorded on different calendar days make separate keys in
   dailyStats, and a recordEvent on day D adds one to
   dailyStats[D].events[name] only: the counters of every other day and of
   every other name on day D are as they were. *)
C16_Step ==
    ret'.op \in {"trackEvent", "construct"} /\ ret'.applied = 1 =>
        LET d == LedgerBefore
            e == inst'[ret'.tab].data
            D == now'
        IN  /\ DOMAIN e.dailyStats = DOMAIN d.dailyStats \cup {D}
            /\ \A k \in DOMAIN d.dailyStats \ {D} : e.dailyStats[k] = d.dailyStats[k]
            /\ \A k \in Days, n \in AllNames :
                  DayCount(e, k, n) =
                      DayCount(d, k, n) + (IF k = D /\ n = NameRecorded THEN 1 ELSE 0)

C16_DayBucketIsolation == [][C16_Step]_vars

\* the identifiers in use: those cached in the tabs and those of the session
\* entries of the ledgers
KnownIds ==
    {sessionStore[u] : u \in Tabs}
    \cup UNION {{d.sessions[i].id : i \in 1..Len(d.sessions)} :
                   d \in Ledgers \cup {Persisted}}

(* C17: within one tab every call of getOrCreateSession, those of the
   successive page instances of the tab included, returns the identifier the
   first call generated and cached; a new browsing context, whose session
   store is empty, gets a freshly generated identifier. *)
C17_Step ==
    \A t \in Tabs :
        /\ sessionStore[t] # NoSession /\ ~(ret'.op = "closeTab" /\ ret'.tab = t) =>
              sessionStore'[t] = sessionStore[t]
        /\ ret'.op = "construct" /\ ret'.tab = t =>
              /\ sessionStore'[t] = inst'[t].sessionId
              /\ IF sessionStore[t] # NoSession
                 THEN inst'[t].sessionId = sessionStore[t]
                 ELSE inst'[t].sessionId \notin KnownIds \cup {NoSession}

C17_SessionIdStability == [][C17_Step]_vars

\* two page loads in tab A under one identifier, and another for tab B
C17_Witness ==
    /\ ret.op = "construct" /\ ret.tab = "tabA"
    /\ sessionStore["tabA"] # NoSession /\ sessionStore["tabB"] # NoSession
    /\ sessionStore["tabA"] # sessionStore["tabB"]
    /\ Len(EventsOfSession(inst["tabA"].data, inst["tabA"].sessionId)) = 2
    /\ inst["tabA"].sessionId = sessionStore["tabA"]

\* the names of the events of session sid in the log of d, in log order
NamesLogged(d, sid) ==
    LET mine == SelectSeq(d.events, LAMBDA ev : ev.sessionId = sid)
    IN  [i \in 1..Len(mine) |-> mine[i].event]

(* C18: in every reachable ledger document, every name in the events of a
   session s has an event in the log with that name and the session's id,
   and the names of s.events are in the order of those events in the log. *)
C18_SessionLogConsistency ==
    \A d \in Ledgers :
        Has(d, "events") /\ Has(d, "sessions") =>
            \A i \in 1..Len(d.sessions) :
                IsSubsequence(d.sessions[i].events, NamesLogged(d, d.sessions[i].id))

\* a session with two different names, logged in that order
C18_Witness ==
    \E d \in Ledgers :
        /\ WellFormed(d)
        /\ Len(d.sessions) = 1
        /\ d.sessions[1].events = <<"quiz_loaded", "quiz_started">>
        /\ NamesLogged(d, d.sessions[1].id) = <<"quiz_loaded", "quiz_started">>

\* the sum of f over the set S
RECURSIVE SumOver(_, _)
SumOver(S, f) ==
    IF S = {} THEN 0
    ELSE LET x == CHOOSE y \in S : TRUE IN f[x] + SumOver(S \ {x}, f)

(* C19: every event is counted in exactly one day bucket: in every state
   reachable from the default document the day counters are numbers, their
   sum over all days and names is the length of the events log, and for each
   name the sum over the days is the number of logged events of that name. *)
C19_EveryEventInOneDayBucket ==
    \A d \in Ledgers :
        /\ \A k \in DOMAIN d.dailyStats : \A n \in DOMAIN d.dailyStats[k].events :
              d.dailyStats[k].events[n] \in Nat
        /\ \A n \in AllNames : SumDays(d, n, MaxDay) = Cardinality(Logged(d, n))
        /\ SumOver(AllNames, [n \in AllNames |-> SumDays(d, n, MaxDay)]) = Len(d.events)

(* C20: for every recordEvent the dailyStats key that is incremented is the
   calendar date of the timestamp stored in the event, also when midnight
   passes while recordEvent runs: the bucket of the timestamp's day changes
   and no other bucket does. *)
C20_Step ==
    ret'.op \in {"trackEvent", "construct"} /\ ret'.applied = 1 =>
        LET d  == LedgerBefore
            e  == inst'[ret'.tab].data
            ts == e.events[Len(e.events)].timestamp
        IN  /\ ts \in DOMAIN e.dailyStats
            /\ ts \in DOMAIN d.dailyStats => e.dailyStats[ts] # d.dailyStats[ts]
            /\ \A k \in DOMAIN e.dailyStats \ {ts} :
                  k \in DOMAIN d.dailyStats /\ e.dailyStats[k] = d.dailyStats[k]

C20_DayKeyOfTimestamp == [][C20_Step]_vars

====
